---- MODULE Spec2Model ----
(***************************************************************************)
(* Pond pump controller (ESP32 "cheap yellow display"), version 2.3.       *)
(* Model of the scheduling and pump-decision core: the mode state machine  *)
(* with its persistence in NVS, the decision function, the temperature     *)
(* gate, the solar window and the loop that decides when to re-evaluate.   *)
(*                                                                         *)
(* Temperatures are integers in tenths of a degree Celsius, truncated      *)
(* toward zero (3.0 C is 30): the only comparison the decision makes is    *)
(* t >= 3.0, which truncation to tenths preserves.  Hour angles are in     *)
(* 1/10000 degree.  Times are epoch seconds (UTC) and milliseconds since   *)
(* boot, as in the source.                                                 *)
(***************************************************************************)
EXTENDS Integers, Sequences, FiniteSets, TLC

VARIABLES
  pc,                 \* position of the single thread of control
  cyc,                \* the cycle event being handled: channel and where to return
  pumpMode,           \* PumpMode pumpMode[2]
  prefs,              \* the NVS namespace "pump": key -> byte
  relay,              \* level of RELAY1 / RELAY2 (TRUE = HIGH)
  currentTemperature, \* float currentTemperature, in tenths of a degree
  tempValid,          \* bool tempValid
  lastTempUpdate,     \* unsigned long lastTempUpdate (ms)
  lastTouchMs,        \* unsigned long lastTouchMs (ms)
  lastMinute,         \* static int lastMinute of loop()
  lastDate,           \* <<lastDay, lastMonth, lastYear>>
  sunriseMinutesUTC,
  sunsetMinutesUTC,
  epochTime,          \* what timeClient.getEpochTime() returns now (s)
  millis,             \* what millis() returns now (ms)
  rebooted,           \* history: power was lost at least once
  modeAtLoss,         \* history: the modes in effect when power was last lost
  fetchedSinceEval,   \* history: fetchTemperature ran after the last relay write
  drivenFrom,         \* history: the mode each relay was last driven from (0: none)
  wifiConnected,      \* WiFi.status() == WL_CONNECTED, as the wait loop of setup() polls it
  display,            \* the hours last printed on the panel (-1: nothing printed)
  twin,               \* history: the run that differs only in what isUK_DST returns
  hist,               \* history of evaluations, cycle events and sun computations
  uIn,                \* unit harness: the arguments of the function under test
  uOut                \* unit harness: its result

sysvars == << pc, cyc, pumpMode, prefs, relay, currentTemperature, tempValid,
              lastTempUpdate, lastTouchMs, lastMinute, lastDate,
              sunriseMinutesUTC, sunsetMinutesUTC, epochTime, millis,
              rebooted, modeAtLoss, fetchedSinceEval, drivenFrom,
              wifiConnected, display, twin, hist >>

vars == << pc, cyc, pumpMode, prefs, relay, currentTemperature, tempValid,
           lastTempUpdate, lastTouchMs, lastMinute, lastDate,
           sunriseMinutesUTC, sunsetMinutesUTC, epochTime, millis,
           rebooted, modeAtLoss, fetchedSinceEval, drivenFrom, uIn, uOut, wifiConnected, display, twin, hist >>

(***************************************************************************)
(* Program constants.                                                      *)
(***************************************************************************)
MODE_ON == 1
MODE_OFF == 2
MODE_AUTO == 3
MODE_AUTO_EXTEND == 4

Modes == {MODE_ON, MODE_OFF, MODE_AUTO, MODE_AUTO_EXTEND}
Pumps == {0, 1}

FrostTenths == 30
ExtendMinutes == 60
InitialTemperature == -1000
DefaultSunrise == 360
DefaultSunset == 1080
tempInterval == 600000
touchDebounceMs == 300
MinutesPerDay == 1440
LongitudeE4 == -20436

Bytes == 0..255

(***************************************************************************)
(* The decision function and the daylight test.                            *)
(***************************************************************************)
shouldPumpBeOnNoFrostForOn(m, day, now, ss, t) ==
  CASE m = MODE_ON -> TRUE
    [] ~(t >= FrostTenths) -> FALSE
    [] m = MODE_OFF -> FALSE
    [] m = MODE_AUTO -> day
    [] m = MODE_AUTO_EXTEND -> (day \/ (now < ss + ExtendMinutes))
    [] OTHER -> FALSE

shouldPumpBeOnInclusive(m, day, now, ss, t) ==
  IF ~(t >= FrostTenths) THEN FALSE
  ELSE CASE m = MODE_ON -> TRUE
         [] m = MODE_OFF -> FALSE
         [] m = MODE_AUTO -> day
         [] m = MODE_AUTO_EXTEND -> (day \/ (now <= ss + ExtendMinutes))
         [] OTHER -> FALSE

shouldPumpBeOn(m, day, now, ss, t) ==
  IF ~(t >= FrostTenths) THEN FALSE
  ELSE CASE m = MODE_ON -> TRUE
         [] m = MODE_OFF -> FALSE
         [] m = MODE_AUTO -> day
         [] m = MODE_AUTO_EXTEND -> (day \/ (now < ss + ExtendMinutes))
         [] OTHER -> FALSE

\* bool day = now >= sunriseMinutesUTC && now < sunsetMinutesUTC;
isDaytime(now, sr, ss) == now >= sr /\ now < ss

(***************************************************************************)
(* Mode persistence.  The store maps the keys that exist to a byte;        *)
(* getUChar returns the default for a key that does not exist.             *)
(***************************************************************************)
getUChar(store, key, default) ==
  IF key \in DOMAIN store THEN store[key] ELSE default

putUChar(store, key, b) ==
  [k \in (DOMAIN store) \cup {key} |-> IF k = key THEN b ELSE store[k]]

\* variant: both statements write the key "mode1"
saveStepSameKey(store, pm, k) ==
  IF k = 1 THEN putUChar(store, "mode1", pm[0])
  ELSE putUChar(store, "mode1", pm[1])

\* the k-th statement of savePumpModes:
\* prefs.putUChar("mode1", pumpMode[0]); prefs.putUChar("mode2", pumpMode[1]);
saveStep(store, pm, k) ==
  IF k = 1 THEN putUChar(store, "mode1", pm[0])
  ELSE putUChar(store, "mode2", pm[1])

savePumpModes(store, pm) == saveStep(saveStep(store, pm, 1), pm, 2)

\* variant: the byte read is taken as the mode
validModeUnchecked(b) == b

\* if (m < MODE_ON || m > MODE_AUTO_EXTEND) m = MODE_AUTO;
validMode(b) ==
  IF b < MODE_ON \/ b > MODE_AUTO_EXTEND THEN MODE_AUTO ELSE b

loadPumpModesCoupled(store) ==
  LET m1 == getUChar(store, "mode1", MODE_AUTO)
      m2 == getUChar(store, "mode2", MODE_AUTO)
      bad == m1 < MODE_ON \/ m1 > MODE_AUTO_EXTEND
             \/ m2 < MODE_ON \/ m2 > MODE_AUTO_EXTEND
  IN  [i \in Pumps |-> IF bad THEN MODE_AUTO ELSE IF i = 0 THEN m1 ELSE m2]

loadPumpModes(store) ==
  LET m1 == getUChar(store, "mode1", MODE_AUTO)
      m2 == getUChar(store, "mode2", MODE_AUTO)
  IN  [i \in Pumps |-> IF i = 0 THEN validMode(m1) ELSE validMode(m2)]

(***************************************************************************)
(* The mode state machine.                                                 *)
(***************************************************************************)
nextModeSkipsExtend(m) ==
  CASE m = MODE_ON -> MODE_OFF
    [] m = MODE_OFF -> MODE_AUTO
    [] m = MODE_AUTO -> MODE_ON
    [] m = MODE_AUTO_EXTEND -> MODE_ON
    [] OTHER -> m

\* the switch of cycleMode; a value outside the enum falls through unchanged
nextMode(m) ==
  CASE m = MODE_ON -> MODE_OFF
    [] m = MODE_OFF -> MODE_AUTO
    [] m = MODE_AUTO -> MODE_AUTO_EXTEND
    [] m = MODE_AUTO_EXTEND -> MODE_ON
    [] OTHER -> m

\* variant: the new mode is written to channel 0 whichever channel the event
\* is for
setModeChannel0(pm, i) == [pm EXCEPT ![0] = nextMode(pm[i])]

\* pumpMode[i] = m;
setMode(pm, i) == [pm EXCEPT ![i] = nextMode(pm[i])]

\* cycleMode(i): the new modes and the store after savePumpModes()
cycleMode(pm, store, i) ==
  LET pm2 == setMode(pm, i)
  IN  [pm |-> pm2, store |-> savePumpModes(store, pm2)]

(***************************************************************************)
(* The temperature fetch.  A payload is a sequence of characters; "M"      *)
(* stands for the marker text "Outside Temperature" (which holds no digit  *)
(* and no '-'), "x" for any character that is not a digit, '-' or '.'.     *)
(* Indices are 1-based; 0 is indexOf's "not found" (-1 in the source).     *)
(***************************************************************************)
DigitChars == << "0", "1", "2", "3", "4", "5", "6", "7", "8", "9" >>

isDigit(c) == \E k \in 1..Len(DigitChars) : DigitChars[k] = c

DigitVal(c) == (CHOOSE k \in 1..Len(DigitChars) : DigitChars[k] = c) - 1

\* p.indexOf("Outside Temperature")
indexOfMarker(p) ==
  IF \E k \in 1..Len(p) : p[k] = "M"
  THEN CHOOSE k \in 1..Len(p) : p[k] = "M" /\ \A j \in 1..(k - 1) : p[j] # "M"
  ELSE 0

RECURSIVE tokenStart(_, _)
\* while (s < p.length() && !isDigit(p[s]) && p[s] != '-') s++;
tokenStart(p, s) ==
  IF s <= Len(p) /\ ~isDigit(p[s]) /\ p[s] # "-" THEN tokenStart(p, s + 1) ELSE s

RECURSIVE tokenEnd(_, _)
\* while (e < p.length() && (isDigit(p[e]) || p[e] == '.' || p[e] == '-')) e++;
tokenEnd(p, e) ==
  IF e <= Len(p) /\ (isDigit(p[e]) \/ p[e] = "." \/ p[e] = "-")
  THEN tokenEnd(p, e + 1) ELSE e

RECURSIVE digitRun(_, _)
\* the number of digits of tok from index k on
digitRun(tok, k) ==
  IF k <= Len(tok) /\ isDigit(tok[k]) THEN 1 + digitRun(tok, k + 1) ELSE 0

RECURSIVE digitsValue(_, _, _)
\* the decimal value of the n digits of tok that end before index k + n
digitsValue(tok, k, n) ==
  IF n = 0 THEN 0
  ELSE 10 * digitsValue(tok, k, n - 1) + DigitVal(tok[k + n - 1])

\* String::toFloat (atof): optional sign, digits, optional '.' and digits; the
\* conversion stops at the first character that does not fit, and a text with
\* no digit converts to 0.  The result is in tenths, truncated toward zero.
toFloat(tok) ==
  LET neg == Len(tok) > 0 /\ tok[1] = "-"
      p0 == IF neg THEN 2 ELSE 1
      ni == digitRun(tok, p0)
      dot == p0 + ni <= Len(tok) /\ tok[p0 + ni] = "."
      nf == IF dot THEN digitRun(tok, p0 + ni + 1) ELSE 0
      f1 == IF nf > 0 THEN DigitVal(tok[p0 + ni + 1]) ELSE 0
      mag == IF ni + nf = 0 THEN 0 ELSE 10 * digitsValue(tok, p0, ni) + f1
  IN  IF neg THEN 0 - mag ELSE mag

\* fetchTemperature(): the new currentTemperature, tempValid and lastTempUpdate.
\* connected: WiFi.status() == WL_CONNECTED; c: what http.GET() returns;
\* p: what http.getString() returns; ms: millis() at the end of the call.
fetchTemperature(connected, c, p, cur, valid, stamp, ms) ==
  IF ~connected THEN [temp |-> cur, valid |-> FALSE, stamp |-> stamp]
  ELSE IF c > 0
       THEN LET i == indexOfMarker(p)
                s == tokenStart(p, i)
                e == tokenEnd(p, s)
            IN  IF i # 0
                THEN IF s < e
                     THEN [temp |-> toFloat(SubSeq(p, s, e - 1)),
                           valid |-> TRUE, stamp |-> ms]
                     ELSE [temp |-> cur, valid |-> FALSE, stamp |-> ms]
                ELSE [temp |-> cur, valid |-> FALSE, stamp |-> ms]
       ELSE [temp |-> cur, valid |-> FALSE, stamp |-> ms]

(***************************************************************************)
(* Calendar date of an epoch time (loop(), epoch -> Y/M/D).                *)
(***************************************************************************)
\* variant: every fourth year is a leap year
isLeapEveryFourth(y) == y % 4 = 0

\* (year % 4 == 0 && (year % 100 != 0 || year % 400 == 0))
isLeap(y) == y % 4 = 0 /\ (y % 100 # 0 \/ y % 400 = 0)

daysInYear(y) == IF isLeap(y) THEN 366 ELSE 365

\* int dim[] = {31, 28, ...}; if (leap) dim[1] = 29;   (1-based here)
dim(y) ==
  << 31, IF isLeap(y) THEN 29 ELSE 28, 31, 30, 31, 30, 31, 31, 30, 31, 30, 31 >>

RECURSIVE yearLoop(_, _)
\* while (true) { if (days >= diy) { days -= diy; year++; } else break; }
yearLoop(days, year) ==
  IF days >= daysInYear(year) THEN yearLoop(days - daysInYear(year), year + 1)
  ELSE [days |-> days, year |-> year]

RECURSIVE monthLoop(_, _, _)
\* for (i = 0; i < 12; i++) { if (dleft >= dim[i]) { dleft -= dim[i]; month++; } else break; }
monthLoop(dleft, i, y) ==
  IF i <= 12 /\ dleft >= dim(y)[i] THEN monthLoop(dleft - dim(y)[i], i + 1, y)
  ELSE [dleft |-> dleft, month |-> i]

\* <<day, month, year>> from days = epochTime / 86400
dateOfDays(days) ==
  LET yl == yearLoop(days, 1970)
      ml == monthLoop(yl.days, 1, yl.year)
  IN  << 1 + ml.dleft, ml.month, yl.year >>

\* <<day, month, year>> of epoch second e
dateOf(e) == dateOfDays(e \div 86400)

(***************************************************************************)
(* Sunrise and sunset (calculateSunTimes).                                 *)
(***************************************************************************)
RECURSIVE dayOfYear(_, _, _)
\* int N = d; for (i = 1; i < m; i++) N += dim[i - 1];
dayOfYear(d, m, y) ==
  IF m <= 1 THEN d ELSE dim(y)[m - 1] + dayOfYear(d, m - 1, y)

\* hA = acosf(clamp(-tanf(latR) * tanf(decR))) * RAD_TO_DEG for N = 1..366, in
\* 1/10000 degree: the single-precision evaluation of lines 542-547 at the
\* configured latitude, tabulated.
HourAngleTable ==
  << 572200, 573649, 575215, 576897, 578692, 580599, 582616, 584742,
     586974, 589311, 591751, 594290, 596928, 599662, 602490, 605410,
     608419, 611515, 614696, 617960, 621304, 624727, 628225, 631796,
     635439, 639152, 642931, 646775, 650681, 654648, 658674, 662756,
     666892, 671080, 675320, 679607, 683942, 688321, 692743, 697207,
     701711, 706253, 710831, 715444, 720091, 724770, 729479, 734217,
     738984, 743776, 748595, 753437, 758302, 763189, 768096, 773023,
     777969, 782932, 787912, 792907, 797917, 802941, 807977, 813026,
     818086, 823157, 828237, 833327, 838424, 843530, 848642, 853760,
     858884, 864013, 869146, 874283, 879423, 884565, 889709, 894854,
     900000, 905146, 910291, 915435, 920577, 925717, 930854, 935987,
     941116, 946240, 951358, 956470, 961576, 966673, 971763, 976843,
     981914, 986974, 992023, 997060, 1002083, 1007093, 1012088, 1017068,
     1022031, 1026977, 1031904, 1036811, 1041698, 1046563, 1051405, 1056224,
     1061016, 1065783, 1070521, 1075230, 1079909, 1084556, 1089169, 1093747,
     1098289, 1102793, 1107257, 1111679, 1116058, 1120393, 1124680, 1128920,
     1133108, 1137244, 1141326, 1145352, 1149319, 1153225, 1157069, 1160848,
     1164560, 1168204, 1171775, 1175273, 1178696, 1182040, 1185304, 1188485,
     1191581, 1194590, 1197510, 1200338, 1203072, 1205710, 1208250, 1210689,
     1213026, 1215258, 1217384, 1219401, 1221308, 1223103, 1224785, 1226351,
     1227800, 1229131, 1230343, 1231433, 1232402, 1233248, 1233970, 1234568,
     1235040, 1235387, 1235608, 1235703, 1235671, 1235514, 1235230, 1234820,
     1234285, 1233625, 1232841, 1231933, 1230903, 1229752, 1228481, 1227090,
     1225583, 1223959, 1222220, 1220369, 1218406, 1216334, 1214155, 1211870,
     1209482, 1206992, 1204403, 1201717, 1198935, 1196061, 1193097, 1190044,
     1186905, 1183682, 1180378, 1176994, 1173534, 1169999, 1166391, 1162713,
     1158967, 1155155, 1151280, 1147343, 1143346, 1139292, 1135183, 1131020,
     1126806, 1122543, 1118231, 1113874, 1109473, 1105030, 1100546, 1096023,
     1091463, 1086867, 1082236, 1077574, 1072879, 1068155, 1063403, 1058623,
     1053818, 1048987, 1044133, 1039257, 1034360, 1029443, 1024506, 1019552,
     1014580, 1009593, 1004590, 999573, 994543, 989500, 984445, 979380,
     974304, 969219, 964126, 959024, 953915, 948800, 943679, 938552,
     933421, 928286, 923148, 918006, 912863, 907719, 902573, 897427,
     892281, 887137, 881994, 876852, 871714, 866579, 861448, 856321,
     851200, 846085, 840976, 835874, 830781, 825696, 820620, 815555,
     810500, 805457, 800427, 795410, 790407, 785420, 780448, 775494,
     770557, 765640, 760743, 755866, 751013, 746183, 741377, 736597,
     731845, 727121, 722426, 717764, 713133, 708538, 703977, 699454,
     694970, 690527, 686126, 681769, 677457, 673194, 668980, 664817,
     660708, 656654, 652657, 648720, 644845, 641033, 637287, 633609,
     630001, 626466, 623006, 619622, 616318, 613095, 609956, 606903,
     603939, 601064, 598283, 595597, 593008, 590518, 588130, 585845,
     583666, 581594, 579631, 577780, 576041, 574418, 572910, 571519,
     570248, 569097, 568067, 567159, 566375, 565715, 565180, 564770,
     564486, 564329, 564297, 564392, 564613, 564960, 565432, 566030,
     566752, 567598, 568567, 569657, 570869, 572200 >>

hourAngle(N) == HourAngleTable[N]

\* (int)x of a float x given in 1/10000: truncation toward zero
truncE4(x) == IF x >= 0 THEN x \div 10000 ELSE 0 - ((0 - x) \div 10000)

\* if (v < 0) v += 1440;
wrapNegative(v) == IF v < 0 THEN v + MinutesPerDay ELSE v

\* sunrise = (int)(720 - 4 * (longitude + hA)); sunset = (int)(720 - 4 * (longitude - hA));
sunTimesOfHourAngle(hA) ==
  << wrapNegative(truncE4(7200000 - 4 * (LongitudeE4 + hA))),
     wrapNegative(truncE4(7200000 - 4 * (LongitudeE4 - hA))) >>

\* variant: the hour angle drifts with the temperature stored at the call
calculateSunTimesDrifting(d, m, y) ==
  sunTimesOfHourAngle(hourAngle(dayOfYear(d, m, y)) + 100 * currentTemperature)

\* <<sunriseMinutesUTC, sunsetMinutesUTC>> after calculateSunTimes(d, m, y)
calculateSunTimes(d, m, y) == sunTimesOfHourAngle(hourAngle(dayOfYear(d, m, y)))

\* ---- isUK_DST ----------------------------------------------------------
EpochYear == 1970

\* days from 1 January 1970 to 1 January of year y >= 1970: 365 a year and
\* one more for each leap year in between
daysBeforeYear(y) ==
  365 * (y - EpochYear) + ((y - 1969) \div 4) - ((y - 1901) \div 100)
    + ((y - 1601) \div 400)

\* mktime(&t) on a tm holding only tm_mday = dd, tm_mon = m - 1 and
\* tm_year = y - 1900 (midnight, no zone set): the tm_wday it fills in,
\* 0 = Sunday.  1 January 1970 was a Thursday (4).
mktimeWday(dd, m, y) ==
  (daysBeforeYear(y) + (dayOfYear(dd, m, y) - 1) + 4) % 7

RECURSIVE lastSunday(_, _, _)
\* int ls = 31; for (int dd = 31; dd >= 25; dd--) { ... if (t.tm_wday == 0)
\* { ls = dd; break; } }     -- called with dd = 31
lastSunday(dd, m, y) ==
  IF dd < 25 THEN 31
  ELSE IF mktimeWday(dd, m, y) = 0 THEN dd
  ELSE lastSunday(dd - 1, m, y)

\* variant: summer time starts the day after the last Sunday of March
isUK_DSTDayAfter(d, m, y) ==
  IF m < 3 \/ m > 10 THEN FALSE
  ELSE IF m > 3 /\ m < 10 THEN TRUE
  ELSE IF m = 3 THEN d > lastSunday(31, m, y)
  ELSE IF m = 10 THEN d < lastSunday(31, m, y)
  ELSE FALSE

isUK_DST(d, m, y) ==
  IF m < 3 \/ m > 10 THEN FALSE
  ELSE IF m > 3 /\ m < 10 THEN TRUE
  ELSE IF m = 3 THEN d >= lastSunday(31, m, y)
  ELSE IF m = 10 THEN d < lastSunday(31, m, y)
  ELSE FALSE

(***************************************************************************)
(* Function-level specifications.  Each draws the arguments of one         *)
(* function from a bounded set and applies the function once (cycleMode:   *)
(* repeatedly); the program's own state stays as it is before boot.        *)
(***************************************************************************)
NoPrefs == [k \in {} |-> 0]

NoModes == [i \in Pumps |-> 0]

\* nothing printed yet
NoDisplay == [hrLocal |-> -1, sRiseH |-> -1, sSetH |-> -1]

\* the twin run at power-on: relays low, lastMinute = -1, nothing printed
NoTwin == [relay |-> [i \in Pumps |-> FALSE], lastMinute |-> -1,
           display |-> NoDisplay]

\* no evaluation, no cycle event and no sun computation yet
\*   evalBy        what ran the decision last: "minute" (the minute gate),
\*                 "cycle" (a cycle event in a pass whose minute gate was not
\*                 open), "cycleAtRollover" (a cycle event, gate open)
\*   evalMinute    the minute of the day of that evaluation
\*   lastCycleMs   millis() of the last accepted cycle event
\*   lastFetchMs   millis() of the last call of fetchTemperature
\*   fetchFlip     flips at each call of fetchTemperature
\*   sunCalls      calls of calculateSunTimes
\*   dates         the dates the loop has observed
\*   loaded        the modes loaded at boot
\*   cycles        accepted cycle events per channel since boot, modulo 4
\*   stalled       the pass of loop() now running reads the epoch time the
\*                 pass before it read
\*   windows       << date, << sunrise, sunset >> >> of every call of
\*                 calculateSunTimes since the first power-on
NoHist == [evalBy |-> "none", evalMinute |-> -1, lastCycleMs |-> -1,
           lastFetchMs |-> -1, fetchFlip |-> FALSE, sunCalls |-> 0,
           dates |-> {}, loaded |-> NoModes, cycles |-> [i \in Pumps |-> 0],
           stalled |-> FALSE, windows |-> {}]

PowerOnState(store, e) ==
  /\ pc = "boot"
  /\ cyc = [i |-> 0, ret |-> "none"]
  /\ pumpMode = [i \in Pumps |-> MODE_AUTO]
  /\ prefs = store
  /\ relay = [i \in Pumps |-> FALSE]
  /\ currentTemperature = InitialTemperature
  /\ tempValid = TRUE
  /\ lastTempUpdate = 0
  /\ lastTouchMs = 0
  /\ lastMinute = -1
  /\ lastDate = << -1, -1, -1 >>
  /\ sunriseMinutesUTC = DefaultSunrise
  /\ sunsetMinutesUTC = DefaultSunset
  /\ epochTime = e
  /\ millis = 0
  /\ fetchedSinceEval = FALSE
  /\ drivenFrom = NoModes
  /\ wifiConnected = FALSE
  /\ display = NoDisplay
  /\ twin = NoTwin
  /\ hist = NoHist

Idle == [done |-> FALSE]

\* ---- shouldPumpBeOn and the daylight test -------------------------------
SampleTemps == {InitialTemperature, 29, 30, 200}

SampleSunTimes == { << DefaultSunrise, DefaultSunset >>, calculateSunTimes(21, 6, 2025) }

DecideInputs ==
  [m : Modes, day : BOOLEAN, now : 0..(MinutesPerDay - 1),
   sun : SampleSunTimes, t : SampleTemps]

InitDecide ==
  /\ PowerOnState(NoPrefs, 0)
  /\ rebooted = FALSE
  /\ modeAtLoss = NoModes
  /\ uIn \in DecideInputs
  /\ uOut = Idle

\* on: shouldPumpBeOn on the arguments as given; isDay: the daylight test;
\* relayOn: shouldPumpBeOn as refreshPumpOutputs calls it (day from the test)
Decide ==
  /\ ~uOut.done
  /\ uOut' = [done |-> TRUE,
              on |-> shouldPumpBeOn(uIn.m, uIn.day, uIn.now, uIn.sun[2], uIn.t),
              isDay |-> isDaytime(uIn.now, uIn.sun[1], uIn.sun[2]),
              relayOn |-> shouldPumpBeOn(uIn.m,
                            isDaytime(uIn.now, uIn.sun[1], uIn.sun[2]),
                            uIn.now, uIn.sun[2], uIn.t)]
  /\ UNCHANGED << sysvars, uIn >>

SpecDecide == InitDecide /\ [][Decide]_vars

\* C2: frost lockout of the decision function.  For every mode (ON included),
\* every isDaytime value, every minute of the day and every sunset, a
\* temperature below 3.0 C makes shouldPumpBeOn return false.
FrostLockout ==
  (uOut.done /\ uIn.t < FrostTenths) => ~uOut.on

\* C2 witness: mode ON in daylight at 2.9 C has been decided, and is off.
FrostLockoutWitness ==
  /\ uOut.done
  /\ uIn.m = MODE_ON /\ uIn.day /\ uIn.t = 29
  /\ ~uOut.on

\* the mode table as the specification states it
TableVerdict(m, day, now, ss) ==
  CASE m = MODE_ON -> TRUE
    [] m = MODE_OFF -> FALSE
    [] m = MODE_AUTO -> day
    [] m = MODE_AUTO_EXTEND -> (day \/ now < ss + 60)

\* C3: mode table.  At 3.0 C or more shouldPumpBeOn is true for ON, false for
\* OFF, isDaytime for AUTO and (isDaytime or now < sunset + 60) for AUTO_EXTEND,
\* isDaytime being now in [sunrise, sunset); the extend bound is exclusive
\* (sunset 1080, not day: 1139 is on, 1140 is off).
ModeTable ==
  (uOut.done /\ uIn.t >= FrostTenths) =>
    /\ uOut.on = TableVerdict(uIn.m, uIn.day, uIn.now, uIn.sun[2])
    /\ uOut.isDay = (uIn.now \in uIn.sun[1]..(uIn.sun[2] - 1))
    /\ uOut.relayOn = TableVerdict(uIn.m, uOut.isDay, uIn.now, uIn.sun[2])
    /\ (uIn.m = MODE_AUTO_EXTEND /\ ~uIn.day /\ uIn.sun[2] = 1080) =>
         /\ (uIn.now = 1139 => uOut.on)
         /\ (uIn.now = 1140 => ~uOut.on)

\* C3 witness: AUTO_EXTEND, not day, sunset 1080, minute 1139, 20 C: on.
ModeTableWitness ==
  /\ uOut.done
  /\ uIn.m = MODE_AUTO_EXTEND /\ ~uIn.day /\ uIn.sun[2] = 1080
  /\ uIn.now = 1139 /\ uIn.t = 200
  /\ uOut.on

\* C4: the extend window is after sunset.  In AUTO_EXTEND at 3.0 C or more, at a
\* minute outside the daylight window [sunrise, sunset) the actuator is on only
\* if the minute lies in [sunset, sunset + 60); so it is off before sunrise.
ExtendOnlyAfterSunset ==
  (/\ uOut.done
   /\ uIn.m = MODE_AUTO_EXTEND /\ uIn.t >= FrostTenths
   /\ ~uOut.isDay /\ uOut.relayOn)
  => (uIn.now >= uIn.sun[2] /\ uIn.now < uIn.sun[2] + 60)

\* ---- cycleMode ---------------------------------------------------------
MaxCalls == 5

CycleInputs ==
  { [pm |-> pm, store |-> st, i |-> i] :
      pm \in [Pumps -> Modes], st \in {NoPrefs}, i \in Pumps }
  \cup
  { [pm |-> pm, store |-> savePumpModes(NoPrefs, pm), i |-> i] :
      pm \in [Pumps -> Modes], i \in Pumps }

InitCycle ==
  /\ PowerOnState(NoPrefs, 0)
  /\ rebooted = FALSE
  /\ modeAtLoss = NoModes
  /\ uIn \in CycleInputs
  /\ uOut = [done |-> FALSE, pm |-> uIn.pm, store |-> uIn.store, n |-> 0]

CycleCall ==
  /\ uOut.n < MaxCalls
  /\ LET r == cycleMode(uOut.pm, uOut.store, uIn.i)
     IN  uOut' = [done |-> TRUE, pm |-> r.pm, store |-> r.store, n |-> uOut.n + 1]
  /\ UNCHANGED << sysvars, uIn >>

SpecCycle == InitCycle /\ [][CycleCall]_vars

\* the cycle as the specification states it
ClaimedNext == (1 :> 2) @@ (2 :> 3) @@ (3 :> 4) @@ (4 :> 1)

RECURSIVE ClaimedAfter(_, _)
ClaimedAfter(m, n) == IF n = 0 THEN m ELSE ClaimedNext[ClaimedAfter(m, n - 1)]

\* C6: mode cycling is a fixed 4-cycle.  Each cycleMode(i) call maps ON to OFF,
\* OFF to AUTO, AUTO to AUTO_EXTEND and AUTO_EXTEND to ON; four successive
\* calls return channel i to its starting mode and fewer than four do not.
FourCycle ==
  /\ uOut.pm[uIn.i] = ClaimedAfter(uIn.pm[uIn.i], uOut.n)
  /\ (uOut.n = 4 => uOut.pm[uIn.i] = uIn.pm[uIn.i])
  /\ (uOut.n \in 1..3 => uOut.pm[uIn.i] # uIn.pm[uIn.i])

\* C6 witness: four calls made from AUTO_EXTEND, and the channel is back there.
FourCycleWitness ==
  /\ uOut.n = 4
  /\ uIn.pm[uIn.i] = MODE_AUTO_EXTEND
  /\ uOut.pm[uIn.i] = MODE_AUTO_EXTEND

\* ---- loadPumpModes -----------------------------------------------------
AllStores ==
  UNION { [ks -> Bytes] : ks \in SUBSET {"mode1", "mode2"} }

InitLoad ==
  /\ PowerOnState(NoPrefs, 0)
  /\ rebooted = FALSE
  /\ modeAtLoss = NoModes
  /\ uIn \in [store : AllStores]
  /\ uOut = Idle

Load ==
  /\ ~uOut.done
  /\ uOut' = [done |-> TRUE, pm |-> loadPumpModes(uIn.store)]
  /\ UNCHANGED << sysvars, uIn >>

SpecLoad == InitLoad /\ [][Load]_vars

KeyOf(i) == IF i = 0 THEN "mode1" ELSE "mode2"

\* C9: load validation.  For every pair of persisted bytes (0..255 each, or key
\* absent) loadPumpModes sets a channel to its persisted mode when the byte is
\* in 1..4 and to AUTO when it is outside 1..4 or absent; a channel's loaded
\* mode is a function of that channel's key alone (byte 7 loads as AUTO, byte 1
\* as ON, whatever the other channel holds).
LoadValidation ==
  uOut.done =>
    \A i \in Pumps :
      uOut.pm[i] = IF KeyOf(i) \in DOMAIN uIn.store /\ uIn.store[KeyOf(i)] \in 1..4
                   THEN uIn.store[KeyOf(i)]
                   ELSE 3

\* C9 witness: the store holds 7 for channel 0 and 1 for channel 1, and the
\* load gave AUTO and ON.
LoadValidationWitness ==
  /\ uOut.done
  /\ DOMAIN uIn.store = {"mode1", "mode2"}
  /\ uIn.store["mode1"] = 7 /\ uIn.store["mode2"] = 1
  /\ uOut.pm[0] = MODE_AUTO /\ uOut.pm[1] = MODE_ON

\* ---- fetchTemperature --------------------------------------------------
MaxPayload == 4

PayloadChars == {"M", "x", "-", ".", "2", "5"}

Payloads == UNION { [1..n -> PayloadChars] : n \in 0..MaxPayload }

\* http.GET(): a negative client error, or the status code of the response
HttpCodes == {-1, 200, 404}

FetchInputs ==
  [connected : BOOLEAN, c : HttpCodes, p : Payloads,
   cur : {InitialTemperature, 50}, valid : BOOLEAN]

InitFetch ==
  /\ PowerOnState(NoPrefs, 0)
  /\ rebooted = FALSE
  /\ modeAtLoss = NoModes
  /\ uIn \in FetchInputs
  /\ uOut = Idle

Fetch ==
  /\ ~uOut.done
  /\ LET r == fetchTemperature(uIn.connected, uIn.c, uIn.p, uIn.cur, uIn.valid, 0, 1000)
     IN  uOut' = [done |-> TRUE, temp |-> r.temp, valid |-> r.valid, stamp |-> r.stamp]
  /\ UNCHANGED << sysvars, uIn >>

SpecFetch == InitFetch /\ [][Fetch]_vars

\* a success response: status 2xx
IsSuccess(c) == c \in 200..299

\* a numeric token follows the marker: a digit occurs after it
NumericTokenFollows(p) ==
  /\ indexOfMarker(p) # 0
  /\ \E k \in (indexOfMarker(p) + 1)..Len(p) : isDigit(p[k])

\* C10: every temperature-fetch failure collapses to invalid.  fetchTemperature
\* leaves valid = false when the network is unavailable, when the response is
\* not a success response, when the marker is absent and when no numeric token
\* follows the marker; it sets valid = true and updates the stored value only
\* for a success response that holds the marker followed by a numeric token.
FetchCollapsesToInvalid ==
  uOut.done =>
    LET ok == uIn.connected /\ IsSuccess(uIn.c) /\ NumericTokenFollows(uIn.p)
    IN  /\ uOut.valid = ok
        /\ (~ok => uOut.temp = uIn.cur)

\* ---- isUK_DST ----------------------------------------------------------
FirstYear == 2023

YearSpan == 8

\* every valid date of the years FirstYear .. FirstYear + YearSpan - 1
DstInputs ==
  { x \in [d : 1..31, m : 1..12, y : FirstYear..(FirstYear + YearSpan - 1)] :
      x.d <= dim(x.y)[x.m] }

InitDst ==
  /\ PowerOnState(NoPrefs, 0)
  /\ rebooted = FALSE
  /\ modeAtLoss = NoModes
  /\ uIn \in DstInputs
  /\ uOut = Idle

Dst ==
  /\ ~uOut.done
  /\ uOut' = [done |-> TRUE, dst |-> isUK_DST(uIn.d, uIn.m, uIn.y)]
  /\ UNCHANGED << sysvars, uIn >>

SpecDst == InitDst /\ [][Dst]_vars

\* the civil weekday of a date, 0 = Sunday (Sakamoto's method)
CivilWeekday(d, m, y) ==
  LET t == << 0, 3, 2, 5, 0, 3, 5, 1, 4, 6, 2, 4 >>
      yy == IF m < 3 THEN y - 1 ELSE y
  IN  (yy + (yy \div 4) - (yy \div 100) + (yy \div 400) + t[m] + d) % 7

\* the highest day in 25..31 of month m whose civil weekday is Sunday
LastSundayOf(m, y) ==
  CHOOSE dd \in 25..31 :
    /\ CivilWeekday(dd, m, y) = 0
    /\ \A e \in 25..31 : CivilWeekday(e, m, y) = 0 => e <= dd

\* C18: the DST rule.  For every valid date of the years checked, isUK_DST is
\* false in months 1, 2, 11, 12, true in months 4..9, in March true iff the day
\* is on or after the last Sunday of March, in October true iff the day is
\* before the last Sunday of October; in 2023: 25 March false, 26 March true,
\* 28 October true, 29 October false.
DstRule ==
  /\ uOut.done =>
       uOut.dst = (CASE uIn.m \in {1, 2, 11, 12} -> FALSE
                     [] uIn.m \in 4..9 -> TRUE
                     [] uIn.m = 3 -> uIn.d >= LastSundayOf(3, uIn.y)
                     [] uIn.m = 10 -> uIn.d < LastSundayOf(10, uIn.y))
  /\ ~isUK_DST(25, 3, 2023) /\ isUK_DST(26, 3, 2023)
  /\ isUK_DST(28, 10, 2023) /\ ~isUK_DST(29, 10, 2023)

\* C18 witness: 30 March 2025, the last Sunday of that March, is summer time.
DstRuleWitness ==
  /\ uOut.done /\ uOut.dst
  /\ uIn.d = 30 /\ uIn.m = 3 /\ uIn.y = 2025
  /\ LastSundayOf(3, 2025) = 30

\* ---- calculateSunTimes --------------------------------------------------
HourAngleStep == 5000

\* 180 degrees: acosf(-1) * RAD_TO_DEG, the largest value the clamp lets through
MaxHourAngle == 1800000

\* hour angles from 0 to 180 degrees in steps of half a degree, and those of
\* the 366 days at the configured latitude
HourAngles ==
  { k * HourAngleStep : k \in 0..(MaxHourAngle \div HourAngleStep) }
    \cup { MaxHourAngle } \cup { hourAngle(N) : N \in 1..366 }

InitSun ==
  /\ PowerOnState(NoPrefs, 0)
  /\ rebooted = FALSE
  /\ modeAtLoss = NoModes
  /\ uIn \in [hA : HourAngles]
  /\ uOut = Idle

Sun ==
  /\ ~uOut.done
  /\ uOut' = [done |-> TRUE, sun |-> sunTimesOfHourAngle(uIn.hA)]
  /\ UNCHANGED << sysvars, uIn >>

SpecSun == InitSun /\ [][Sun]_vars

BaseEpoch == 1743249600   \* 29 March 2025, 12:00:00 UTC

\* The instants at which a pass of loop() may start, as <<seconds after
\* BaseEpoch, millis()>>: two within the debounce interval of the first, one
\* just past it, a minute rollover, the instant exactly tempInterval after the
\* first fetch, the millisecond after it, and the next minute rollover.
Instants ==
  { << 0, 1000 >>, << 0, 1200 >>, << 0, 1301 >>, << 60, 61000 >>,
    << 600, 601000 >>, << 601, 601001 >>, << 660, 661000 >> }

FirstMillis == 1000

\* what the NVS namespace may hold at first power-on
InitStores ==
  { NoPrefs,
    [k \in {"mode1", "mode2"} |-> IF k = "mode1" THEN 1 ELSE 7] }

\* the responses of the temperature source the system specifications draw from
SamplePayloads == { << >>, << "M", "x", "2" >>, << "M", "x", "5" >> }

\* what a call of fetchTemperature may meet in the system specifications: no
\* WiFi; a failed GET; status 200 with each payload; status 404 with a payload
\* that holds a temperature
FetchCases ==
  { [connected |-> FALSE, c |-> 200, p |-> << >>],
    [connected |-> TRUE, c |-> -1, p |-> << >>],
    [connected |-> TRUE, c |-> 404, p |-> << "M", "x", "5" >>] }
  \cup { [connected |-> TRUE, c |-> 200, p |-> p] : p \in SamplePayloads }

\* int now = (e / 60) % 1440;
minuteOfDay(e) == (e \div 60) % MinutesPerDay

\* int min = (epochTime / 60) % 60;
minuteOfHour(e) == (e \div 60) % 60

\* refreshPumpOutputs(): the levels written to RELAY1 and RELAY2
refreshPumpOutputs(pm, e, sr, ss, t) ==
  LET now == minuteOfDay(e)
      day == isDaytime(now, sr, ss)
  IN  [i \in Pumps |-> shouldPumpBeOn(pm[i], day, now, ss, t)]

\* int hr = (epochTime / 3600) % 24;
hourOfDay(e) == (e \div 3600) % 24

\* history: a decision evaluation, by the minute gate or by a cycle event
histEval(h, by, e) == [h EXCEPT !.evalBy = by, !.evalMinute = minuteOfDay(e)]

\* history: an accepted cycle event on channel i at millis() = ms
histCycle(h, i, ms) ==
  [h EXCEPT !.lastCycleMs = ms, !.cycles[i] = (@ + 1) % 4]

\* history: a pass of loop() that read epoch time e ends, and the next one
\* will read e2
histTick(h, e, e2) == [h EXCEPT !.stalled = (e2 = e)]

Init ==
  /\ \E st \in InitStores : PowerOnState(st, BaseEpoch)
  /\ rebooted = FALSE
  /\ modeAtLoss = NoModes
  /\ uIn = Idle
  /\ uOut = Idle

\* setup(), up to WiFi.begin(): loadPumpModes(), pinMode()
Setup ==
  /\ pc = "boot"
  /\ pumpMode' = loadPumpModes(prefs)
  /\ hist' = [hist EXCEPT !.loaded = loadPumpModes(prefs)]
  /\ pc' = "wifi"
  /\ UNCHANGED << cyc, prefs, relay, currentTemperature, tempValid,
                  lastTempUpdate, lastTouchMs, lastMinute, lastDate,
                  sunriseMinutesUTC, sunsetMinutesUTC, epochTime, millis,
                  rebooted, modeAtLoss, fetchedSinceEval, drivenFrom,
                  uIn, uOut, wifiConnected, display, twin >>

\* while (WiFi.status() != WL_CONNECTED) { delay(500); }   -- not yet connected
WaitWiFi ==
  /\ pc = "wifi"
  /\ ~wifiConnected
  /\ UNCHANGED vars

\* the network: the station connects while setup() polls WiFi.status().
\* (Later reads of the status, in fetchTemperature, are drawn afresh: the
\* link may change at any time.)
WiFiConnects ==
  /\ pc = "wifi"
  /\ ~wifiConnected
  /\ wifiConnected' = TRUE
  /\ UNCHANGED << pc, cyc, pumpMode, prefs, relay, currentTemperature, tempValid,
                  lastTempUpdate, lastTouchMs, lastMinute, lastDate,
                  sunriseMinutesUTC, sunsetMinutesUTC, epochTime, millis,
                  rebooted, modeAtLoss, fetchedSinceEval, drivenFrom,
                  uIn, uOut, display, twin, hist >>

\* setup(), once WiFi is connected: server.begin(), timeClient.update(),
\* fetchTemperature()
SetupFinish ==
  /\ pc = "wifi"
  /\ wifiConnected
  /\ \E ms \in {FirstMillis}, f \in FetchCases :
       LET r == fetchTemperature(f.connected, f.c, f.p, currentTemperature,
                                 tempValid, lastTempUpdate, ms)
       IN  /\ millis' = ms
           /\ currentTemperature' = r.temp
           /\ tempValid' = r.valid
           /\ lastTempUpdate' = r.stamp
  /\ fetchedSinceEval' = TRUE
  /\ hist' = [hist EXCEPT !.lastFetchMs = FirstMillis, !.fetchFlip = ~@]
  /\ pc' = "top"
  /\ UNCHANGED << cyc, pumpMode, prefs, relay, lastTouchMs, lastMinute, lastDate,
                  sunriseMinutesUTC, sunsetMinutesUTC, epochTime,
                  rebooted, modeAtLoss, drivenFrom,
                  uIn, uOut, wifiConnected, display, twin >>

\* server.handleClient() with no request pending, or a request for "/"
\* (handleRoot changes no state)
HandleNoRequest ==
  /\ pc = "top"
  /\ pc' = "body"
  /\ UNCHANGED << cyc, pumpMode, prefs, relay, currentTemperature, tempValid,
                  lastTempUpdate, lastTouchMs, lastMinute, lastDate,
                  sunriseMinutesUTC, sunsetMinutesUTC, epochTime, millis,
                  rebooted, modeAtLoss, fetchedSinceEval, drivenFrom, uIn, uOut, wifiConnected, display, twin, hist >>

\* variant: the handler cycles and saves the mode and leaves the relays to the
\* next minute rollover
CycleWithoutRefresh(i, e2) ==
  LET r == cycleMode(pumpMode, prefs, i)
  IN  /\ pumpMode' = r.pm
      /\ prefs' = r.store
      /\ hist' = histCycle(IF pc = "touch" THEN histTick(hist, epochTime, e2)
                                           ELSE hist, i, millis)
      /\ UNCHANGED << relay, twin, drivenFrom, fetchedSinceEval >>

\* cycleMode(i); beep(); refreshPumpOutputs();  as one step.  e2 is the epoch
\* time the next pass will read (the event of the touch handling ends a pass)
CycleAndRefresh(i, e2) ==
  LET r == cycleMode(pumpMode, prefs, i)
  IN  /\ pumpMode' = r.pm
      /\ prefs' = r.store
      /\ relay' = refreshPumpOutputs(r.pm, epochTime, sunriseMinutesUTC,
                                     sunsetMinutesUTC, currentTemperature)
      /\ twin' = [twin EXCEPT !.relay =
                    refreshPumpOutputs(r.pm, epochTime, sunriseMinutesUTC,
                                       sunsetMinutesUTC, currentTemperature)]
      /\ hist' = histEval(histCycle(IF pc = "touch"
                                     THEN histTick(hist, epochTime, e2)
                                     ELSE hist, i, millis),
                          IF minuteOfHour(epochTime) # lastMinute
                          THEN "cycleAtRollover" ELSE "cycle", epochTime)
      /\ drivenFrom' = r.pm
      /\ fetchedSinceEval' = FALSE

\* server.handleClient() with a request for /pump1 or /pump2: handlePump1/2
HandlePump ==
  /\ pc = "top"
  /\ \E i \in Pumps : CycleAndRefresh(i, epochTime)
  /\ pc' = "body"
  /\ UNCHANGED << cyc, currentTemperature, tempValid, lastTempUpdate,
                  lastTouchMs, lastMinute, lastDate, sunriseMinutesUTC,
                  sunsetMinutesUTC, epochTime, millis, rebooted, modeAtLoss,
                  uIn, uOut, wifiConnected, display >>

\* if (millis() - lastTempUpdate > tempInterval || lastTempUpdate == 0)
tempGateOpen(ms, last) == ms - last > tempInterval \/ last = 0

\* variant: the sun times are computed on every pass
dateGateOpenAlways(date, last) == TRUE

\* if (day != lastDay || month != lastMonth || year != lastYear)
dateGateOpen(date, last) == date # last

\* what the minute gate prints: hrLocal, and the hours of sunrise and sunset
\* (each one later when dst holds)
displayOf(e, dst, sr, ss) ==
  [hrLocal |-> IF dst
               THEN (IF hourOfDay(e) + 1 >= 24 THEN hourOfDay(e) + 1 - 24
                                              ELSE hourOfDay(e) + 1)
               ELSE hourOfDay(e),
   sRiseH |-> IF dst THEN ((sr \div 60) + 1) % 24 ELSE sr \div 60,
   sSetH |-> IF dst THEN ((ss \div 60) + 1) % 24 ELSE ss \div 60]

\* variant: the evaluation runs on every pass
minuteGateEveryPass(lm, e, dst, pm, sr, ss, t, rel, disp) ==
  [ran |-> TRUE, lastMinute |-> minuteOfHour(e),
   relay |-> refreshPumpOutputs(pm, e, sr, ss, t),
   display |-> displayOf(e, dst, sr, ss)]

\* variant: the relays are decided at the local time that is displayed
minuteGateLocalTime(lm, e, dst, pm, sr, ss, t, rel, disp) ==
  IF minuteOfHour(e) # lm
  THEN [ran |-> TRUE, lastMinute |-> minuteOfHour(e),
        relay |-> refreshPumpOutputs(pm, IF dst THEN e + 3600 ELSE e, sr, ss, t),
        display |-> displayOf(e, dst, sr, ss)]
  ELSE [ran |-> FALSE, lastMinute |-> lm, relay |-> rel, display |-> disp]

\* if (min != lastMinute) { lastMinute = min; ... tft.print(buf); ...
\* refreshPumpOutputs(); }  with dst the value of isUK_DST(day, month, year)
minuteGate(lm, e, dst, pm, sr, ss, t, rel, disp) ==
  IF minuteOfHour(e) # lm
  THEN [ran |-> TRUE, lastMinute |-> minuteOfHour(e),
        relay |-> refreshPumpOutputs(pm, e, sr, ss, t),
        display |-> displayOf(e, dst, sr, ss)]
  ELSE [ran |-> FALSE, lastMinute |-> lm, relay |-> rel, display |-> disp]

\* loop() from timeClient.update() to the end of the minute gate.  The twin
\* run takes the same pass with the other value of isUK_DST; its modes,
\* temperature and sun times are those of this run, which no statement
\* computes from that value.
LoopBody ==
  /\ pc = "body"
  /\ \E date \in {dateOf(epochTime)} :
     \E dst \in {isUK_DST(date[1], date[2], date[3])} :
     \E sun \in {IF dateGateOpen(date, lastDate)
                 THEN calculateSunTimes(date[1], date[2], date[3])
                 ELSE << sunriseMinutesUTC, sunsetMinutesUTC >>} :
     LET open == dateGateOpen(date, lastDate)
         fetch == tempGateOpen(millis, lastTempUpdate)
     IN  /\ lastDate' = IF open THEN date ELSE lastDate
         /\ sunriseMinutesUTC' = sun[1]
         /\ sunsetMinutesUTC' = sun[2]
         /\ IF fetch
            THEN \E f \in FetchCases :
                   LET r == fetchTemperature(f.connected, f.c, f.p, currentTemperature,
                                             tempValid, lastTempUpdate, millis)
                   IN  /\ currentTemperature' = r.temp
                       /\ tempValid' = r.valid
                       /\ lastTempUpdate' = r.stamp
            ELSE UNCHANGED << currentTemperature, tempValid, lastTempUpdate >>
         /\ LET g == minuteGate(lastMinute, epochTime, dst, pumpMode, sun[1],
                                sun[2], currentTemperature', relay, display)
                tg == minuteGate(twin.lastMinute, epochTime, ~dst, pumpMode,
                                 sun[1], sun[2], currentTemperature',
                                 twin.relay, twin.display)
                h == [hist EXCEPT
                        !.sunCalls = IF open THEN @ + 1 ELSE @,
                        !.dates = @ \cup {date},
                        !.windows = IF open THEN @ \cup {<< date, sun >>} ELSE @,
                        !.fetchFlip = IF fetch THEN ~@ ELSE @,
                        !.lastFetchMs = IF fetch THEN millis ELSE @]
            IN  /\ lastMinute' = g.lastMinute
                /\ relay' = g.relay
                /\ display' = g.display
                /\ twin' = [relay |-> tg.relay, lastMinute |-> tg.lastMinute,
                            display |-> tg.display]
                /\ drivenFrom' = IF g.ran THEN pumpMode ELSE drivenFrom
                /\ fetchedSinceEval' =
                     (IF g.ran THEN FALSE ELSE (fetchedSinceEval \/ fetch))
                /\ hist' = IF g.ran THEN histEval(h, "minute", epochTime) ELSE h
  /\ pc' = "touch"
  /\ UNCHANGED << cyc, pumpMode, prefs, lastTouchMs, epochTime, millis,
                  rebooted, modeAtLoss, uIn, uOut, wifiConnected >>

\* delay(20): the clocks at the start of the next pass, a later instant of the
\* grid (past the last instant the clocks stand still)
Advance(TG) ==
  LET later == { n \in TG : n[2] > millis /\ BaseEpoch + n[1] >= epochTime }
  IN  IF later = {}
      THEN UNCHANGED << epochTime, millis >>
      ELSE \E n \in later : epochTime' = BaseEpoch + n[1] /\ millis' = n[2]

\* if (ts.touched() && (millis() - lastTouchMs > touchDebounceMs))
touchAccepted(ms, last) == ms - last > touchDebounceMs

\* the touch handling when the panel is not touched, or the touch is inside
\* the debounce interval
TouchNone(TG) ==
  /\ pc = "touch"
  /\ Advance(TG)
  /\ hist' = histTick(hist, epochTime, epochTime')
  /\ pc' = "top"
  /\ UNCHANGED << cyc, pumpMode, prefs, relay, currentTemperature, tempValid,
                  lastTempUpdate, lastTouchMs, lastMinute, lastDate,
                  sunriseMinutesUTC, sunsetMinutesUTC,
                  rebooted, modeAtLoss, fetchedSinceEval, drivenFrom, uIn, uOut, wifiConnected, display, twin >>

\* an accepted touch between the two pump areas (2300 <= p.x <= 2400): only
\* lastTouchMs changes
TouchBetween(TG) ==
  /\ pc = "touch"
  /\ touchAccepted(millis, lastTouchMs)
  /\ lastTouchMs' = millis
  /\ Advance(TG)
  /\ hist' = histTick(hist, epochTime, epochTime')
  /\ pc' = "top"
  /\ UNCHANGED << cyc, pumpMode, prefs, relay, currentTemperature, tempValid,
                  lastTempUpdate, lastMinute, lastDate,
                  sunriseMinutesUTC, sunsetMinutesUTC,
                  rebooted, modeAtLoss, fetchedSinceEval, drivenFrom, uIn, uOut, wifiConnected, display, twin >>

\* an accepted touch on a pump area: p.x > 2400 is pump 0, p.x < 2300 pump 1
TouchCycle(TG) ==
  /\ pc = "touch"
  /\ touchAccepted(millis, lastTouchMs)
  /\ lastTouchMs' = millis
  /\ Advance(TG)
  /\ \E i \in Pumps : CycleAndRefresh(i, epochTime')
  /\ pc' = "top"
  /\ UNCHANGED << cyc, currentTemperature, tempValid, lastTempUpdate,
                  lastMinute, lastDate, sunriseMinutesUTC, sunsetMinutesUTC,
                  rebooted, modeAtLoss, uIn, uOut, wifiConnected, display >>

Next ==
  \/ Setup
  \/ WaitWiFi
  \/ WiFiConnects
  \/ SetupFinish
  \/ HandleNoRequest
  \/ HandlePump
  \/ LoopBody
  \/ TouchNone(Instants)
  \/ TouchBetween(Instants)
  \/ TouchCycle(Instants)

Spec == Init /\ [][Next]_vars

RelaysOff == \A i \in Pumps : ~relay[i]

\* C1: fail-safe on unknown temperature.  Once a temperature refresh has failed
\* (tempValid false), every later evaluation of the decision (minute rollover,
\* touch cycle, web cycle) drives both relays off in every mode, whatever value
\* an earlier successful fetch stored, until a refresh succeeds again.
FailSafeOnUnknownTemperature ==
  (~tempValid /\ ~fetchedSinceEval) => RelaysOff

\* C5: frost disables the pumps, as a state invariant.  In every reachable state
\* in which the stored temperature is below 3 C both relays are off.
FrostDisablesPumps ==
  currentTemperature < FrostTenths => RelaysOff

\* C5, amended: in every reachable state in which the stored temperature is
\* below 3 C and the decision has been evaluated since that temperature was
\* stored, both relays are off.
FrostDisablesPumpsOnceEvaluated ==
  (currentTemperature < FrostTenths /\ ~fetchedSinceEval) => RelaysOff

\* C5 witness: a fetch has stored 2.0 C, the decision has been evaluated since
\* with channel 0 in mode ON, and both relays are off.
FrostDisablesPumpsWitness ==
  /\ currentTemperature = 20 /\ tempValid
  /\ ~fetchedSinceEval
  /\ pumpMode[0] = MODE_ON /\ drivenFrom[0] = MODE_ON
  /\ RelaysOff

(***************************************************************************)
(* Power loss.  The cycle event is taken statement by statement, so that   *)
(* power can be lost between the statements of one event: cycleMode()      *)
(* sets the mode in memory, savePumpModes() writes the two keys, and       *)
(* refreshPumpOutputs() drives the relays.  Losing power clears the        *)
(* memory and de-energizes the relays; the store keeps what was written.   *)
(***************************************************************************)
\* variant: the handler drives the relays before cycleMode() saves
cycleStepAfterDriveFirst(step) ==
  CASE step = "set" -> "drive"
    [] step = "drive" -> "save1"
    [] step = "save1" -> "save2"
    [] step = "save2" -> "done"

\* the order of the statements of a cycle event (handlePump1/2, and the touch
\* handling): cycleMode(i) { pumpMode[i] = m; savePumpModes(); } beep();
\* refreshPumpOutputs();
cycleStepAfter(step) ==
  CASE step = "set" -> "save1"
    [] step = "save1" -> "save2"
    [] step = "save2" -> "drive"
    [] step = "drive" -> "done"

PowerInstants == { << 0, 1000 >>, << 0, 1301 >>, << 60, 61000 >> }

BetweenOperations == pc \in {"wifi", "top", "body", "touch"}

\* handlePump1/2 entered from server.handleClient(): pumpMode[i] = m
WebCycleBegin ==
  /\ pc = "top"
  /\ \E i \in Pumps :
       /\ pumpMode' = setMode(pumpMode, i)
       /\ cyc' = [i |-> i, ret |-> "body"]
       /\ hist' = histCycle(hist, i, millis)
  /\ pc' = cycleStepAfter("set")
  /\ UNCHANGED << prefs, relay, currentTemperature, tempValid, lastTempUpdate,
                  lastTouchMs, lastMinute, lastDate, sunriseMinutesUTC,
                  sunsetMinutesUTC, epochTime, millis, rebooted, modeAtLoss,
                  fetchedSinceEval, drivenFrom, uIn, uOut, wifiConnected,
                  display, twin >>

\* an accepted touch on a pump area: lastTouchMs = millis(); pumpMode[i] = m
TouchCycleBegin ==
  /\ pc = "touch"
  /\ touchAccepted(millis, lastTouchMs)
  /\ lastTouchMs' = millis
  /\ \E i \in Pumps :
       /\ pumpMode' = setMode(pumpMode, i)
       /\ cyc' = [i |-> i, ret |-> "top"]
       /\ hist' = histCycle(hist, i, millis)
  /\ pc' = cycleStepAfter("set")
  /\ UNCHANGED << prefs, relay, currentTemperature, tempValid, lastTempUpdate,
                  lastMinute, lastDate, sunriseMinutesUTC,
                  sunsetMinutesUTC, epochTime, millis, rebooted, modeAtLoss,
                  fetchedSinceEval, drivenFrom, uIn, uOut, wifiConnected,
                  display, twin >>

\* prefs.putUChar("mode1", ...) and prefs.putUChar("mode2", ...)
StepSave ==
  /\ pc \in {"save1", "save2"}
  /\ prefs' = saveStep(prefs, pumpMode, IF pc = "save1" THEN 1 ELSE 2)
  /\ pc' = cycleStepAfter(pc)
  /\ UNCHANGED << cyc, pumpMode, relay, currentTemperature, tempValid,
                  lastTempUpdate, lastTouchMs, lastMinute, lastDate,
                  sunriseMinutesUTC, sunsetMinutesUTC, epochTime, millis,
                  rebooted, modeAtLoss, fetchedSinceEval, drivenFrom, uIn, uOut, wifiConnected, display, twin, hist >>

\* refreshPumpOutputs()
StepDrive ==
  /\ pc = "drive"
  /\ relay' = refreshPumpOutputs(pumpMode, epochTime, sunriseMinutesUTC,
                                 sunsetMinutesUTC, currentTemperature)
  /\ twin' = [twin EXCEPT !.relay =
                refreshPumpOutputs(pumpMode, epochTime, sunriseMinutesUTC,
                                   sunsetMinutesUTC, currentTemperature)]
  /\ hist' = histEval(hist, IF minuteOfHour(epochTime) # lastMinute
                            THEN "cycleAtRollover" ELSE "cycle", epochTime)
  /\ drivenFrom' = pumpMode
  /\ fetchedSinceEval' = FALSE
  /\ pc' = cycleStepAfter(pc)
  /\ UNCHANGED << cyc, pumpMode, prefs, currentTemperature, tempValid,
                  lastTempUpdate, lastTouchMs, lastMinute, lastDate,
                  sunriseMinutesUTC, sunsetMinutesUTC, epochTime, millis,
                  rebooted, modeAtLoss, uIn, uOut, wifiConnected, display >>

\* the handler returns: into loop() after handleClient(), or to delay(20)
CycleReturn(TG) ==
  /\ pc = "done"
  /\ IF cyc.ret = "top"
     THEN Advance(TG) /\ hist' = histTick(hist, epochTime, epochTime')
     ELSE UNCHANGED << epochTime, millis, hist >>
  /\ pc' = cyc.ret
  /\ cyc' = [i |-> 0, ret |-> "none"]
  /\ UNCHANGED << pumpMode, prefs, relay, currentTemperature, tempValid,
                  lastTempUpdate, lastTouchMs, lastMinute, lastDate,
                  sunriseMinutesUTC, sunsetMinutesUTC,
                  rebooted, modeAtLoss, fetchedSinceEval, drivenFrom, uIn, uOut, wifiConnected, display, twin >>

\* power is lost and restored: the program starts again from its initial
\* state with the store as it is
PowerLoss ==
  /\ pc # "boot"
  /\ rebooted' = TRUE
  /\ modeAtLoss' = IF BetweenOperations THEN pumpMode ELSE NoModes
  /\ pc' = "boot"
  /\ cyc' = [i |-> 0, ret |-> "none"]
  /\ pumpMode' = [i \in Pumps |-> MODE_AUTO]
  /\ relay' = [i \in Pumps |-> FALSE]
  /\ currentTemperature' = InitialTemperature
  /\ tempValid' = TRUE
  /\ lastTempUpdate' = 0
  /\ lastTouchMs' = 0
  /\ lastMinute' = -1
  /\ lastDate' = << -1, -1, -1 >>
  /\ sunriseMinutesUTC' = DefaultSunrise
  /\ sunsetMinutesUTC' = DefaultSunset
  /\ millis' = 0
  /\ fetchedSinceEval' = FALSE
  /\ drivenFrom' = NoModes
  /\ wifiConnected' = FALSE
  /\ display' = NoDisplay
  /\ twin' = NoTwin
  /\ hist' = [NoHist EXCEPT !.windows = hist.windows]
  /\ UNCHANGED << prefs, epochTime, uIn, uOut >>

NextPower ==
  \/ Setup
  \/ WaitWiFi
  \/ WiFiConnects
  \/ SetupFinish
  \/ HandleNoRequest
  \/ WebCycleBegin
  \/ LoopBody
  \/ TouchNone(PowerInstants)
  \/ TouchBetween(PowerInstants)
  \/ TouchCycleBegin
  \/ StepSave
  \/ StepDrive
  \/ CycleReturn(PowerInstants)
  \/ PowerLoss

SpecPower == Init /\ [][NextPower]_vars

\* C7: modes survive a reboot.  After boot and any sequence of cycle events,
\* at every point between operations loading the persisted bytes yields the
\* in-memory modes of both channels; and when power was lost at such a point,
\* loadPumpModes at the next boot restores exactly the modes then in effect.
ModesSurviveReboot ==
  /\ BetweenOperations => loadPumpModes(prefs) = pumpMode
  /\ (pc = "wifi" /\ modeAtLoss # NoModes) => pumpMode = modeAtLoss

\* C7 witness: power was lost with the channels in ON and AUTO_EXTEND, modes
\* that only cycle events produce here, and the boot has loaded them again.
ModesSurviveRebootWitness ==
  /\ rebooted /\ pc = "wifi"
  /\ modeAtLoss = [i \in Pumps |-> IF i = 0 THEN MODE_ON ELSE MODE_AUTO_EXTEND]
  /\ pumpMode = modeAtLoss

\* C8: persist before actuate.  On every cycle event the new mode is in the
\* store before a relay is driven from it: whenever the handler is about to
\* drive the relays the store loads to the modes in memory, and in no state,
\* mid-event states included, a relay reflects the mode now in memory while
\* the store loads to another.
PersistBeforeActuate ==
  /\ pc = "drive" => loadPumpModes(prefs) = pumpMode
  /\ \A i \in Pumps :
       drivenFrom[i] = pumpMode[i] => loadPumpModes(prefs)[i] = pumpMode[i]

\* C8 witness: a cycle event on channel 0 has taken it from AUTO to
\* AUTO_EXTEND, the store holds the new mode, and the relays, last driven
\* from AUTO, are about to be driven.
PersistBeforeActuateWitness ==
  /\ pc = "drive" /\ cyc.i = 0
  /\ pumpMode[0] = MODE_AUTO_EXTEND
  /\ drivenFrom[0] = MODE_AUTO
  /\ getUChar(prefs, "mode1", 0) = MODE_AUTO_EXTEND

(***************************************************************************)
(* Claims about the scheduling of evaluations, checked under Spec.         *)
(***************************************************************************)
\* C11: cycle events take effect immediately.  Every accepted cycle event, from
\* touch or from the web handler, changes the mode, runs the decision for both
\* channels with the new modes and writes both relays in the same pass, whether
\* or not the minute has rolled over since the last evaluation.
CycleTakesEffectImmediately ==
  [][ (pc \in {"top", "touch"} /\ hist'.cycles # hist.cycles)
      => /\ pumpMode' # pumpMode
         /\ relay' = refreshPumpOutputs(pumpMode', epochTime, sunriseMinutesUTC,
                                        sunsetMinutesUTC, currentTemperature)
         /\ hist'.evalBy \in {"cycle", "cycleAtRollover"} ]_vars

\* C11 witness: in a minute evaluated before (the minute gate closed), a cycle
\* event has taken channel 0 from ON to OFF and its relay is off, at 5.0 C
\* with the relay of channel 1 (AUTO, daylight) on.
CycleTakesEffectImmediatelyWitness ==
  /\ hist.evalBy = "cycle"
  /\ hist.loaded[0] = MODE_ON /\ hist.cycles[0] = 1
  /\ pumpMode[0] = MODE_OFF /\ ~relay[0]
  /\ pumpMode[1] = MODE_AUTO /\ relay[1]
  /\ currentTemperature = 50

(***************************************************************************)
(* The program over two days.  The passes of loop() start at instants      *)
(* that include a step of the clock by one hour between two passes 20 ms   *)
(* apart (timeClient.update() correcting the time), midnight, when the     *)
(* date becomes 30 March 2025 and the summer time rule starts to hold,     *)
(* and 05:01 UTC, less than an hour before sunrise (05:51 UTC).            *)
(***************************************************************************)
DayInstants ==
  { << 0, 1000 >>, << 3600, 1020 >>, << 43200, 39601020 >>,
    << 61260, 57661020 >> }

NextDays ==
  \/ Setup
  \/ WaitWiFi
  \/ WiFiConnects
  \/ SetupFinish
  \/ HandleNoRequest
  \/ HandlePump
  \/ LoopBody
  \/ TouchNone(DayInstants)
  \/ TouchBetween(DayInstants)
  \/ TouchCycle(DayInstants)

SpecDays == Init /\ [][NextDays]_vars

\* C12: minute-rollover evaluation.  In every pass whose minute of the day
\* differs from the minute of the day of the last evaluation, by whatever
\* amount time advanced, the decision is run and the relays are written: once
\* the gates of a pass are through, the last evaluation is of the present minute.
MinuteRolloverEvaluates ==
  pc = "touch" => hist.evalMinute = minuteOfDay(epochTime)

\* C14: the daylight window is computed once per date.  calculateSunTimes has
\* been called once for each distinct date the loop has observed, the cached
\* window is that of the last date observed, and a step changes the cached
\* window only in a pass whose date differs from the last computed date.
SunTimesOncePerDate ==
  /\ [](/\ hist.sunCalls = Cardinality(hist.dates)
        /\ (pc = "touch" => lastDate = dateOf(epochTime))
        /\ (lastDate # << -1, -1, -1 >> =>
              << sunriseMinutesUTC, sunsetMinutesUTC >>
                = calculateSunTimes(lastDate[1], lastDate[2], lastDate[3])))
  /\ [][ << sunriseMinutesUTC, sunsetMinutesUTC >>'
           # << sunriseMinutesUTC, sunsetMinutesUTC >>
         => (pc = "body" /\ dateOf(epochTime) # lastDate) ]_vars

\* C14 witness: the loop has observed 29 and 30 March 2025, has computed the
\* window twice, and has since taken a pass on 30 March, at 05:01 UTC, that
\* left the window of 30 March as it was.
SunTimesOncePerDateWitness ==
  /\ pc = "touch" /\ millis = 57661020
  /\ hist.dates = { << 29, 3, 2025 >>, << 30, 3, 2025 >> }
  /\ hist.sunCalls = 2
  /\ lastDate = << 30, 3, 2025 >>
  /\ << sunriseMinutesUTC, sunsetMinutesUTC >> = calculateSunTimes(30, 3, 2025)
  /\ calculateSunTimes(30, 3, 2025) # calculateSunTimes(29, 3, 2025)

\* C17: DST never affects the actuators.  The twin run receives the same time,
\* temperature and cycle events and differs only in the value isUK_DST
\* returns: in every state its relay outputs and its minute gate are those of
\* this run (its modes are this run's by construction), and what differs on
\* the display is the hours only, by one.
DstNeverAffectsActuators ==
  /\ twin.relay = relay
  /\ twin.lastMinute = lastMinute
  /\ display # NoDisplay =>
       /\ twin.display.hrLocal # display.hrLocal
       /\ (twin.display.hrLocal - display.hrLocal) % 24 \in {1, 23}
       /\ (twin.display.sRiseH - display.sRiseH) % 24 \in {1, 23}
       /\ (twin.display.sSetH - display.sSetH) % 24 \in {1, 23}

\* C17 witness: at 05:01 UTC on 30 March 2025, in summer time, the panel shows
\* 06 and the twin's 05; channel 0 (ON) is on and channel 1 (AUTO, before
\* sunrise) is off in both runs.
DstNeverAffectsActuatorsWitness ==
  /\ pc = "touch" /\ lastDate = << 30, 3, 2025 >>
  /\ hist.evalBy = "minute" /\ hist.evalMinute = 301
  /\ display.hrLocal = 6 /\ twin.display.hrLocal = 5
  /\ pumpMode[0] = MODE_ON /\ pumpMode[1] = MODE_AUTO
  /\ relay[0] /\ twin.relay[0] /\ ~relay[1] /\ ~twin.relay[1]

(***************************************************************************)
(* Claims about cycle events and the temperature gate, checked under Spec. *)
(***************************************************************************)
\* C13: debounce of cycle events.  Any two accepted cycle events, from touch or
\* from the web handler and on either channel, are at least touchDebounceMs
\* (300 ms) apart: a step that accepts a cycle event comes no sooner than
\* 300 ms after the last accepted one.
CycleEventsDebounced ==
  [][ (pc \in {"top", "touch"} /\ hist'.cycles # hist.cycles
       /\ hist.lastCycleMs # -1)
      => millis - hist.lastCycleMs >= touchDebounceMs ]_vars

\* C15: the temperature refresh trigger.  A pass of loop() calls
\* fetchTemperature if and only if no refresh has been made yet or at least
\* tempInterval (600000 ms) has passed since the last refresh.
RefreshTrigger ==
  [][ pc = "body"
      => ((hist'.fetchFlip # hist.fetchFlip)
            <=> (hist.lastFetchMs = -1
                   \/ millis - hist.lastFetchMs >= tempInterval)) ]_vars

(***************************************************************************)
(* Claim about the single thread of control, checked under SpecPower,      *)
(* where a cycle event is taken statement by statement.                    *)
(***************************************************************************)
InSetup == pc \in {"boot", "wifi"}

InCycleEvent == pc \in {"save1", "save2", "drive", "done"}

\* C19: single writer.  Modes, the temperature sample and the cached daylight
\* window are written only by the statement the loop's thread is at: the modes
\* by setup()'s load and by a cycle event entered from handleClient() or from
\* the touch handling, the temperature by setup() and the temperature gate, the
\* window by the date gate; while a cycle event is being handled nothing else
\* is written; and no cycle event is lost: k accepted events on a channel have
\* advanced it by exactly k steps of the cycle from the mode loaded at boot.
SingleWriter ==
  /\ [](~InSetup =>
          \A i \in Pumps :
            pumpMode[i] = ClaimedAfter(hist.loaded[i], hist.cycles[i]))
  /\ [][ pc' # "boot" =>
         /\ (pumpMode' # pumpMode => pc \in {"boot", "top", "touch"})
         /\ (<< currentTemperature, tempValid, lastTempUpdate >>'
               # << currentTemperature, tempValid, lastTempUpdate >>
             => pc \in {"wifi", "body"})
         /\ (<< sunriseMinutesUTC, sunsetMinutesUTC, lastDate >>'
               # << sunriseMinutesUTC, sunsetMinutesUTC, lastDate >>
             => pc = "body")
         /\ (InCycleEvent =>
               /\ pc' = (IF pc = "done" THEN cyc.ret ELSE cycleStepAfter(pc))
               /\ UNCHANGED << pumpMode, currentTemperature, tempValid,
                               lastTempUpdate, lastTouchMs, lastMinute, lastDate,
                               sunriseMinutesUTC, sunsetMinutesUTC >>) ]_vars

\* C19 witness: within 301 ms of the first pass channel 0 took two cycle events
\* and channel 1 one, the last of them from the web handler, and the modes are
\* two steps and one step on from the modes loaded.
SingleWriterWitness ==
  /\ pc = "body" /\ ~rebooted
  /\ hist.loaded = [i \in Pumps |-> IF i = 0 THEN MODE_ON ELSE MODE_AUTO]
  /\ hist.cycles = [i \in Pumps |-> IF i = 0 THEN 2 ELSE 1]
  /\ pumpMode = [i \in Pumps |-> IF i = 0 THEN MODE_AUTO ELSE MODE_AUTO_EXTEND]
  /\ millis = 1301

(***************************************************************************)
(* Progress.  The program is one thread that keeps running: whenever one   *)
(* of its steps can be taken, one is (setup() runs on, handleClient()      *)
(* returns, the gates and the touch handling complete).  WaitWiFi is the   *)
(* wait loop going round, and WiFiConnects is the network's step, under no *)
(* fairness: the station may never connect.                                *)
(***************************************************************************)
FairInstants == { << 0, 1000 >>, << 60, 61000 >> }

NextFair ==
  \/ Setup
  \/ WaitWiFi
  \/ WiFiConnects
  \/ SetupFinish
  \/ HandleNoRequest
  \/ HandlePump
  \/ LoopBody
  \/ TouchNone(FairInstants)
  \/ TouchBetween(FairInstants)
  \/ TouchCycle(FairInstants)

ProgramStep ==
  \/ Setup
  \/ HandleNoRequest
  \/ TouchNone(FairInstants)
  \/ SetupFinish
  \/ LoopBody
  \/ HandlePump
  \/ TouchBetween(FairInstants)
  \/ TouchCycle(FairInstants)

SpecFair == Init /\ [][NextFair]_vars /\ WF_vars(ProgramStep)

\* once setup() is through, a minute not yet evaluated is evaluated
EvaluatesEachMinute ==
  (~InSetup /\ hist.evalMinute # minuteOfDay(epochTime))
    ~> (hist.evalMinute = minuteOfDay(epochTime))

\* C16: no starvation of the actuator decisions.  Under fair scheduling of the
\* program's steps and for every behaviour of the network, WiFi never
\* connecting included, the program reaches its first evaluation of the
\* decision after boot, and from then on every minute that comes is evaluated.
NoStarvation ==
  /\ <>(hist.evalBy # "none")
  /\ EvaluatesEachMinute

StalledTimeRetriggersNothing ==
  [][ hist.stalled =>
        /\ pc = "body" =>
             /\ UNCHANGED << pumpMode, prefs, relay, display, lastMinute,
                             lastDate, sunriseMinutesUTC, sunsetMinutesUTC >>
             /\ hist'.sunCalls = hist.sunCalls
             /\ hist'.evalBy = hist.evalBy
             /\ (hist'.fetchFlip # hist.fetchFlip => fetchedSinceEval')
        /\ (pc \in {"top", "touch"} /\ hist'.cycles = hist.cycles) =>
             UNCHANGED << pumpMode, prefs, relay, display, lastMinute,
                          lastDate, sunriseMinutesUTC, sunsetMinutesUTC >> ]_vars

\* C22 witness: the pass at 1200 ms read the epoch time of the pass at 1000 ms;
\* it fetched 5.0 C, and the relay of channel 0 (ON) is still as the evaluation
\* of the first pass, without a temperature, left it: off.
StalledTimeRetriggersNothingWitness ==
  /\ pc = "touch" /\ hist.stalled /\ millis = 1200
  /\ epochTime = BaseEpoch
  /\ currentTemperature = 50 /\ tempValid /\ fetchedSinceEval
  /\ hist.evalBy = "minute" /\ hist.cycles = [i \in Pumps |-> 0]
  /\ pumpMode[0] = MODE_ON /\ ~relay[0]

(***************************************************************************)
(* The date of an epoch time, as a function: every day from 1 January 1970 *)
(* to the end of 2101 (the century year 2000 is a leap year, 2100 is not). *)
(* The input is days = epochTime / 86400, the only use the decomposition   *)
(* makes of the epoch time: every second of a day gives the same quotient. *)
(***************************************************************************)
MaxEpochDay == 48212

DateInputs == [day : 0..MaxEpochDay]

InitDate ==
  /\ PowerOnState(NoPrefs, 0)
  /\ rebooted = FALSE
  /\ modeAtLoss = NoModes
  /\ uIn \in DateInputs
  /\ uOut = Idle

\* date: <<day, month, year>> as loop() derives it; N: the day of the year
\* calculateSunTimes computes for it
Date ==
  /\ ~uOut.done
  /\ \E date \in {dateOfDays(uIn.day)} :
       uOut' = [done |-> TRUE, date |-> date,
                N |-> dayOfYear(date[1], date[2], date[3])]
  /\ UNCHANGED << sysvars, uIn >>

SpecDate == InitDate /\ [][Date]_vars

\* the proleptic Gregorian date <<d, m, y>> of day z after 1 January 1970
\* (era arithmetic on years that start on 1 March)
CivilFromDays(z) ==
  LET zz == z + 719468
      era == zz \div 146097
      doe == zz - era * 146097
      yoe == (doe - (doe \div 1460) + (doe \div 36524) - (doe \div 146096)) \div 365
      doy == doe - (365 * yoe + (yoe \div 4) - (yoe \div 100))
      mp == (5 * doy + 2) \div 153
      d == doy - ((153 * mp + 2) \div 5) + 1
      m == IF mp < 10 THEN mp + 3 ELSE mp - 9
  IN  << d, m, yoe + era * 400 + (IF m <= 2 THEN 1 ELSE 0) >>

\* the number of days from 1 January 1970 to the date d/m/y
DaysFromCivil(d, m, y) ==
  LET yy == IF m <= 2 THEN y - 1 ELSE y
      era == yy \div 400
      yoe == yy - era * 400
      doy == ((153 * (IF m > 2 THEN m - 3 ELSE m + 9) + 2) \div 5) + d - 1
      doe == yoe * 365 + (yoe \div 4) - (yoe \div 100) + doy
  IN  era * 146097 + doe - 719468

\* C23: date decomposition.  For every epoch second of the range the loop
\* derives the proleptic Gregorian year, month (1..12) and day (1..31) of that
\* instant, with leap years those divisible by 4 and not by 100 unless by 400;
\* the year loop ends after at most one round per 365 days; and the day of the
\* year calculateSunTimes computes for that date is its 1-based ordinal, in
\* 1..366 (366 in leap years only).
DateDecomposition ==
  uOut.done =>
    /\ uOut.date = CivilFromDays(uIn.day)
    /\ uOut.date[2] \in 1..12 /\ uOut.date[1] \in 1..31
    /\ uOut.date[3] - EpochYear <= uIn.day \div 365
    /\ uOut.N = uIn.day - DaysFromCivil(1, 1, uOut.date[3]) + 1
    /\ uOut.N \in 1..366
    /\ (uOut.N = 366 =>
          (uOut.date[3] % 4 = 0
             /\ (uOut.date[3] % 100 # 0 \/ uOut.date[3] % 400 = 0)))

\* C23 witness: day 47541 is 1 March 2100, day 60 of a year that is divisible
\* by 4 and is not a leap year.
DateDecompositionWitness ==
  /\ uOut.done
  /\ uIn.day = 47541
  /\ uOut.date = << 1, 3, 2100 >>
  /\ uOut.N = 60

(***************************************************************************)
(* Claim about the range of the modes, checked under SpecPower: boots from *)
(* a store that holds a byte outside the enum (7), cycle events taken      *)
(* statement by statement, and reboots from whatever the store then holds. *)
(***************************************************************************)
\* C24: the mode stays in the enum.  In every reachable state, after boot from
\* the persisted bytes and after any sequence of touch and web cycle events on
\* either channel, each channel's mode is one of ON (1), OFF (2), AUTO (3) and
\* AUTO_EXTEND (4), and every byte written to the store is in 1..4.
ModeStaysInEnum ==
  /\ [](\A i \in Pumps : pumpMode[i] \in 1..4)
  /\ [][ /\ (pc = "save1" /\ pc' = "save2") => prefs'["mode1"] \in 1..4
         /\ (pc = "save2" /\ pc' = "drive") => prefs'["mode2"] \in 1..4
         /\ \A k \in DOMAIN prefs' :
              (k \notin DOMAIN prefs \/ prefs'[k] # prefs[k])
                => prefs'[k] \in 1..4 ]_vars

\* C24 witness: booted from the store that held 7 for channel 1, which loaded
\* as AUTO; a cycle event has taken channel 0 from ON to OFF and written 2 for
\* it, and is about to overwrite the 7.
ModeStaysInEnumWitness ==
  /\ pc = "save2" /\ ~rebooted
  /\ pumpMode[0] = MODE_OFF /\ pumpMode[1] = MODE_AUTO
  /\ DOMAIN prefs = {"mode1", "mode2"}
  /\ prefs["mode1"] = 2 /\ prefs["mode2"] = 7

NoPumpBeforeTemperature ==
  currentTemperature = InitialTemperature => RelaysOff

\* C26 witness: no fetch has succeeded by the pass at 60 s; its minute gate has
\* evaluated the decision with channel 0 in ON, after a cycle event on
\* channel 1, and both relays are off.
NoPumpBeforeTemperatureWitness ==
  /\ pc = "touch" /\ epochTime = BaseEpoch + 60
  /\ currentTemperature = InitialTemperature /\ ~tempValid
  /\ hist.evalBy = "minute" /\ hist.cycles[1] = 1
  /\ pumpMode[0] = MODE_ON /\ drivenFrom[0] = MODE_ON
  /\ RelaysOff

(***************************************************************************)
(* Claim about the frame of a cycle event, checked under SpecDays.         *)
(***************************************************************************)
\* C27: a cycle is local to its channel.  cycleMode(i) changes only channel i's
\* mode: the other channel's mode in memory and the value persisted for it, the
\* temperature sample and its validity, the cached daylight window and the
\* date, minute and refresh gates are unchanged.  (The value persisted for a
\* channel is the byte under its key, or none when the key is absent: -1.)
CycleIsLocal ==
  [][ \A i \in Pumps :
        (pc \in {"top", "touch"} /\ hist'.cycles[i] # hist.cycles[i]) =>
          /\ \A j \in Pumps \ {i} :
               /\ pumpMode'[j] = pumpMode[j]
               /\ getUChar(prefs', KeyOf(j), -1) = getUChar(prefs, KeyOf(j), -1)
          /\ UNCHANGED << currentTemperature, tempValid, sunriseMinutesUTC,
                          sunsetMinutesUTC, lastDate, lastMinute,
                          lastTempUpdate >> ]_vars

\* C27, amended: as above, with the mode persisted for the other channel (what
\* loadPumpModes gives for its key) unchanged in place of the byte.
CycleIsLocalToLoadedMode ==
  [][ \A i \in Pumps :
        (pc \in {"top", "touch"} /\ hist'.cycles[i] # hist.cycles[i]) =>
          /\ pumpMode'[i] # pumpMode[i]
          /\ \A j \in Pumps \ {i} :
               /\ pumpMode'[j] = pumpMode[j]
               /\ loadPumpModes(prefs')[j] = loadPumpModes(prefs)[j]
          /\ UNCHANGED << currentTemperature, tempValid, sunriseMinutesUTC,
                          sunsetMinutesUTC, lastDate, lastMinute,
                          lastTempUpdate >> ]_vars

\* C27 witness: booted from the store that held 7 for channel 1; one cycle
\* event, on channel 0, has been taken; channel 1 is in AUTO as loaded and the
\* store now holds 3 for it.
CycleIsLocalWitness ==
  /\ hist.loaded = [i \in Pumps |-> IF i = 0 THEN MODE_ON ELSE MODE_AUTO]
  /\ hist.cycles = [i \in Pumps |-> IF i = 0 THEN 1 ELSE 0]
  /\ pumpMode = [i \in Pumps |-> IF i = 0 THEN MODE_OFF ELSE MODE_AUTO]
  /\ getUChar(prefs, "mode2", -1) = MODE_AUTO
  /\ currentTemperature = 50 /\ tempValid

\* C28: refresh attempts are rate-limited even when failing.  After any call of
\* fetchTemperature, in setup() or in a pass, successful or failed (WiFi not
\* connected included), no pass calls it again before tempInterval has elapsed
\* since that call.
RefreshAttemptsRateLimited ==
  [][ (pc = "body" /\ hist'.fetchFlip # hist.fetchFlip
       /\ hist.lastFetchMs # -1)
      => millis - hist.lastFetchMs >= tempInterval ]_vars

(***************************************************************************)
(* Claim about the window the decision reads, checked under SpecDays.      *)
(***************************************************************************)
\* C29: decisions use the current date's window.  Whenever the decision runs
\* (at a minute rollover, on a touch cycle, on a web cycle handled at the top
\* of loop()), the cached sunrise and sunset are what calculateSunTimes computed
\* for the calendar date of the current time: not the boot defaults 360/1080
\* and not the window of the date before.
DecisionsUseCurrentWindow ==
  [][ ((pc \in {"top", "touch"} /\ hist'.cycles # hist.cycles)
         \/ (pc = "body" /\ lastMinute' # lastMinute))
      => \E date \in {dateOf(epochTime)} :
           /\ lastDate' = date
           /\ << sunriseMinutesUTC, sunsetMinutesUTC >>'
                = calculateSunTimes(date[1], date[2], date[3]) ]_vars
====
